---- MODULE Spec2Model ----
(***************************************************************************)
(* Model of modules/highgui/src/window_wayland.cpp: the Wayland backend of *)
(* OpenCV highgui.  The client is single threaded; the only concurrency is *)
(* with the compositor, whose messages travel on `wire` and are handled by *)
(* the listener callbacks while the client sits in a roundtrip or in       *)
(* wl_display_dispatch.                                                    *)
(***************************************************************************)
EXTENDS Integers, Sequences, FiniteSets, TLC

\* ------------------------------------------------------------- bounds
\* heap addresses a cv_wl_window can be allocated at (0 is the null pointer)
NumAddrs == 3
\* compositor messages in flight (the roundtrip/read marker is not counted)
MaxWire == 2
\* key codes waiting in key_queue_ or in flight
MaxKeys == 2
\* pointer events in flight
MaxPointer == 1
\* entries of entered_window_, those on their way included
MaxEntered == 2
\* mappings counted one by one; a count of MaxMaps stands for that or more
MaxMaps == 2
\* the serials of the compositor's configure and ping events are 1..MaxSerial
MaxSerial == 2

Names == {"a", "b"}
Addrs == 1..NumAddrs
\* (cols, rows) of the images shown
Dims == {<<1, 1>>, <<2, 1>>}
\* raw evdev key codes the compositor reports: Enter, A
RawKeys == {28, 30}

\* ---------------------------------------------------- program constants
default_width == 320
default_height == 240
WL_KEYBOARD_KEY_STATE_RELEASED == 0
WL_KEYBOARD_KEY_STATE_PRESSED == 1
WL_KEYBOARD_KEYMAP_FORMAT_NO_KEYMAP == 0
WL_KEYBOARD_KEYMAP_FORMAT_XKB_V1 == 1
WL_SHM_FORMAT_ARGB8888 == 0
WL_SHM_FORMAT_XRGB8888 == 1
WL_POINTER_BUTTON_STATE_RELEASED == 0
WL_POINTER_BUTTON_STATE_PRESSED == 1
\* cv_wl_mouse::button
NONE == 0
LBUTTON == 272
RBUTTON == 273
MBUTTON == 274
\* the event kinds and flags of cv::MouseEventTypes and cv::MouseEventFlags
EVENT_MOUSEMOVE == 0
EVENT_LBUTTONDOWN == 1
EVENT_RBUTTONDOWN == 2
EVENT_MBUTTONDOWN == 3
EVENT_LBUTTONUP == 4
EVENT_RBUTTONUP == 5
EVENT_MBUTTONUP == 6
EVENT_FLAG_LBUTTON == 1
EVENT_FLAG_RBUTTON == 2
EVENT_FLAG_MBUTTON == 4

VARIABLES
    g_core,      \* the global shared_ptr<cv_wl_core>: "null" or "core"
    display_,    \* cv_wl_core::display_: "null" or "ready"
    windows_,    \* cv_wl_core::windows_: name -> address of the window
    handles_,    \* cv_wl_core::handles_: handle (address) -> name
    heap,        \* the live cv_wl_window objects, by address
    keyboard_,   \* cv_wl_input::keyboard_ is set
    mouse_,      \* cv_wl_input::mouse_ is set
    xkb_state,   \* cv_wl_keyboard::xkb_.state: "null" or "valid"
    key_queue_,  \* cv_wl_keyboard::key_queue_
    interest,    \* events the epoller watches the display fd for
    sock,        \* the display socket: "ok", "full" (send would block), "broken"
    fatal,       \* libwayland's sticky display error: every flush fails
    wire,        \* compositor -> client messages not yet dispatched
    held,        \* compositor side: the buffers it may still read
    keymap_sent, \* compositor side: the keymap was announced
    entered_window_, \* cv_wl_mouse::entered_window_, a std::queue of windows
    called,      \* the last call of a window's mouse callback
    pointer_on,  \* compositor side: the surfaces the pointer has entered and
                 \* not left, the latest last
    pressed,     \* compositor side: the buttons that are down
    last_click,  \* compositor side: the last button event it sent
    mat,         \* the image handed to write_mat_to_xrgb8888
    shm_data,    \* the device pixels it wrote
    mmaps,       \* the mappings create_shm made that are still mapped
    acked,       \* the last answer a handler queued for the compositor
    pc,          \* where the application thread is
    last         \* the last entry point called and what it returned

vars == <<g_core, display_, windows_, handles_, heap, keyboard_, mouse_,
          xkb_state, key_queue_, interest, sock, fatal, wire, held,
          keymap_sent, entered_window_, called, pointer_on, pressed,
          last_click, mat, shm_data, mmaps, acked, pc, last>>

coreVars == <<g_core, display_, keyboard_, mouse_, interest>>
regVars == <<windows_, handles_, heap>>
kbVars == <<xkb_state, key_queue_>>
connVars == <<sock, fatal>>
ptrVars == <<entered_window_, called, pointer_on, pressed, last_click>>
pixVars == <<mat, shm_data>>

\* ------------------------------------------------------------ helpers
Idle ==
    [op |-> "idle", at |-> "", w |-> 0, delay |-> 0, ev |-> {},
     dim |-> <<0, 0>>]
Crashed ==
    [op |-> "crashed", at |-> "", w |-> 0, delay |-> 0, ev |-> {},
     dim |-> <<0, 0>>]
Msg(k, x, y) == [kind |-> k, a |-> x, b |-> y, c |-> 0, serial |-> 0]
\* an event with three arguments
Msg3(k, x, y, z) == [kind |-> k, a |-> x, b |-> y, c |-> z, serial |-> 0]
\* an event with three arguments and a serial
Msg4(k, x, y, z, s) == [kind |-> k, a |-> x, b |-> y, c |-> z, serial |-> s]
\* a request a handler answers an event with: xdg_surface_ack_configure on
\* the surface of window a, or xdg_shell_pong
Answer(k, x, s) == [kind |-> k, a |-> x, serial |-> s]
NoAnswer == Answer("", 0, 0)
Mark == Msg("mark", 0, 0)
InFlight(k) == Cardinality({i \in 1..Len(wire) : wire[i].kind = k})
Traffic == Len(wire) - InFlight("mark")

\* ------------------------------------------------ backend initialisation
Globals == {"wl_compositor", "wl_shm", "xdg_shell", "wl_seat"}
\* what the environment answers while the backend is constructed
Envs == [epoll_create : BOOLEAN, connect : BOOLEAN, globals : SUBSET Globals,
         formats : SUBSET {WL_SHM_FORMAT_ARGB8888, WL_SHM_FORMAT_XRGB8888},
         caps : 0..3, epoll_ctl : BOOLEAN]

AllEvents == {"EPOLLIN", "EPOLLOUT", "EPOLLERR", "EPOLLHUP"}
ReadEvents == {"EPOLLIN", "EPOLLERR", "EPOLLHUP"}

\* bit `bit` (a power of two) is set in the bitmask `mask`
BitSet(mask, bit) == (mask \div bit) % 2 = 1

WL_SEAT_CAPABILITY_POINTER == 1
\* the request opcode the code tests the capabilities against
WL_SEAT_GET_KEYBOARD == 1

\* handle_seat_capabilities: which devices the seat constructs
handle_seat_capabilities(caps) ==
    [mouse |-> BitSet(caps, WL_SEAT_CAPABILITY_POINTER),
     keyboard |-> BitSet(caps, WL_SEAT_GET_KEYBOARD)]

\* cv_wl_display::handle_shm_format: formats_ |= (1 << format)
handle_shm_format(formats_, format) ==
    IF BitSet(formats_, 2^format) THEN formats_ ELSE formats_ + 2^format

\* formats_ after the second roundtrip of init(), the wl_shm having announced
\* the formats of `announced`
RECURSIVE shm_formats(_)
shm_formats(announced) ==
    IF announced = {} THEN 0
    ELSE LET format == CHOOSE f \in announced : TRUE
         IN handle_shm_format(shm_formats(announced \ {format}), format)

\* init() without the test of the pixel formats
cv_wl_display_init_any_format(env) ==
    /\ env.epoll_create
    /\ env.connect
    /\ "wl_compositor" \in env.globals
    /\ "wl_shm" \in env.globals
    /\ "xdg_shell" \in env.globals
    /\ "wl_seat" \in env.globals
    /\ env.epoll_ctl

\* cv_wl_display's constructor and init(): TRUE when no exception leaves it
cv_wl_display_init(env) ==
    /\ env.epoll_create                           \* epoller() did not throw
    /\ env.connect                                \* display_ is not null
    /\ "wl_compositor" \in env.globals
    /\ "wl_shm" \in env.globals
    /\ "xdg_shell" \in env.globals
    /\ "wl_seat" \in env.globals                  \* input_ is not null
    /\ BitSet(shm_formats(env.formats), 2^WL_SHM_FORMAT_XRGB8888)
    /\ env.epoll_ctl                              \* poller_.add did not throw

\* cv_wl_core::init: the display it leaves in display_
cv_wl_core_init(env) == IF cv_wl_display_init(env) THEN "ready" ELSE "null"

\* the environment is consulted only by the call that constructs the backend
NoEnv == [epoll_create |-> TRUE, connect |-> TRUE, globals |-> Globals,
          formats |-> {WL_SHM_FORMAT_XRGB8888}, caps |-> 0, epoll_ctl |-> TRUE]
EnvChoices == IF g_core = "null" THEN Envs ELSE {NoEnv}

\* an entry point's return: its name, a name and a number it was given or
\* answers with, the exception that left it, the events of run_once, and
\* what the environment answered to the call if it constructed the backend
Ret(o, n, r, e) ==
    [op |-> o, name |-> n, ret |-> r, exc |-> e, events |-> {}, arg |-> 0,
     env |-> NoEnv]
RetEv(o, n, r, ev, x) ==
    [op |-> o, name |-> n, ret |-> r, exc |-> "", events |-> ev, arg |-> x,
     env |-> NoEnv]

\* cvInitSystem: the backend after the call, and the value returned.  g_core is
\* assigned before init() runs, and the catch block leaves it assigned.
cvInitSystem(env) ==
    IF g_core # "null"
    THEN [g_core |-> g_core, display |-> display_, keyboard |-> keyboard_,
          mouse |-> mouse_, interest |-> interest, ret |-> 0]
    ELSE LET d == cv_wl_core_init(env)
             seat == handle_seat_capabilities(env.caps)
         IN [g_core |-> "core", display |-> d,
             keyboard |-> (d = "ready" /\ seat.keyboard),
             mouse |-> (d = "ready" /\ seat.mouse),
             interest |-> IF d = "ready" THEN AllEvents ELSE {},
             ret |-> 0]

CvInitSystem ==
    /\ pc = Idle
    /\ \E env \in EnvChoices :
         LET o == cvInitSystem(env) IN
         /\ g_core' = o.g_core
         /\ display_' = o.display
         /\ keyboard_' = o.keyboard
         /\ mouse_' = o.mouse
         /\ interest' = o.interest
         /\ last' = [Ret("cvInitSystem", "", o.ret, "") EXCEPT !.env = env]
    /\ UNCHANGED <<regVars, kbVars, connVars, wire, held, keymap_sent, ptrVars, pixVars, mmaps, acked, pc>>

\* ------------------------------------------------------- core registry
EmptyMap == [x \in {} |-> 0]
Range(f) == {f[x] : x \in DOMAIN f}
Restrict(f, S) == [x \in S |-> f[x]]

NewBuffer == [busy |-> FALSE, buffer |-> FALSE, width |-> 0, height |-> 0]
\* cv_wl_window::on_mouse_ as its member initialisers leave it; callback is
\* TRUE when the function pointer is not null
NewOnMouse ==
    [drag |-> FALSE, last_x |-> 0, last_y |-> 0, button |-> NONE,
     callback |-> FALSE]
\* cv_wl_window's constructor
NewWindow(name) ==
    [name |-> name, width |-> default_width, height |-> default_height,
     buffers_ |-> [i \in {0, 1} |-> NewBuffer], on_mouse_ |-> NewOnMouse]

\* an insert that overwrites, as operator[] would
map_insert_overwrites(m, k, v) == (k :> v) @@ m
\* an erase that clears the map
map_erase_clears(m, k) == [x \in {} |-> 0]

\* std::map::insert: keeps the entry of a key that is already present
map_insert(m, k, v) == IF k \in DOMAIN m THEN m ELSE (k :> v) @@ m
\* std::map::operator[] assignment: creates or overwrites
map_assign(m, k, v) == (k :> v) @@ m
\* std::map::erase(key)
map_erase(m, k) == Restrict(m, DOMAIN m \ {k})

\* cv_wl_core::get_window: the window's address, or 0 where at() throws
get_window(name) == IF name \in DOMAIN windows_ THEN windows_[name] ELSE 0

\* the windows kept alive by the shared_ptrs of a name map; `a` is the window
\* just constructed for `name`
Owned(map, a, name) ==
    [x \in Range(map) |-> IF x \in DOMAIN heap THEN heap[x] ELSE NewWindow(name)]

\* the compositor forgets the buffers of destroyed windows and libwayland
\* drops the events addressed to destroyed proxies
RECURSIVE DropDead(_, _)
DropDead(s, live) ==
    IF s = <<>> THEN <<>>
    ELSE IF Head(s).kind \in {"release", "configure"} /\ Head(s).a \notin live
         THEN DropDead(Tail(s), live)
         ELSE <<Head(s)>> \o DropDead(Tail(s), live)

\* the compositor takes the pointer off the surfaces that were destroyed
OnLive(s, live) == SelectSeq(s, LAMBDA a : a \in live)

\* cv_wl_core::create_window, on a core whose display_ is set
create_window(name, a) ==
    LET result == name \notin DOMAIN windows_
        map == map_insert(windows_, name, a)
    IN /\ windows_' = map
       /\ heap' = Owned(map, a, name)
       /\ handles_' = map_assign(handles_, a, name)
       /\ held' = {h \in held : h[1] \in Range(map)}
       /\ wire' = DropDead(wire, Range(map))
       /\ pointer_on' = OnLive(pointer_on, Range(map))
       /\ last' = Ret("create_window", name, IF result THEN 1 ELSE 0, "")

\* cvNamedWindow: cvInitSystem, then create_window; the window is allocated
\* at an address no live window occupies
CvNamedWindow(name) ==
    /\ pc = Idle
    /\ \E env \in EnvChoices, a \in Addrs \ DOMAIN heap :
         LET o == cvInitSystem(env) IN
         /\ g_core' = o.g_core
         /\ display_' = o.display
         /\ keyboard_' = o.keyboard
         /\ mouse_' = o.mouse
         /\ interest' = o.interest
         /\ IF o.ret # 0
            THEN /\ last' = Ret("cvNamedWindow", name, -1, "")
                 /\ UNCHANGED <<regVars, wire, held, pointer_on, pc>>
            ELSE IF o.display = "null"
            THEN \* display->get_surface() through a null shared_ptr
                 /\ pc' = Crashed
                 /\ UNCHANGED <<regVars, wire, held, pointer_on, last>>
            ELSE /\ create_window(name, a)
                 /\ pc' = pc
    /\ UNCHANGED <<kbVars, connVars, keymap_sent, entered_window_, called,
                   pressed, last_click, pixVars, mmaps, acked>>

\* cv_wl_core::destroy_window
destroy_window(name) ==
    LET map == map_erase(windows_, name) IN
    /\ windows_' = map
    /\ heap' = Restrict(heap, Range(map))
    /\ held' = {h \in held : h[1] \in Range(map)}
    /\ wire' = DropDead(wire, Range(map))
    /\ pointer_on' = OnLive(pointer_on, Range(map))
    /\ last' = Ret("destroy_window", name,
                   IF name \in DOMAIN windows_ THEN 1 ELSE 0, "")
    /\ UNCHANGED handles_

\* an entry point called while g_core is null dereferences a null pointer
NullCore ==
    /\ g_core = "null"
    /\ pc' = Crashed
    /\ UNCHANGED <<coreVars, regVars, kbVars, connVars, wire, held,
                   keymap_sent, ptrVars, pixVars, mmaps, acked, last>>

CvDestroyWindow(name) ==
    /\ pc = Idle
    /\ \/ NullCore
       \/ /\ g_core # "null"
          /\ destroy_window(name)
          /\ UNCHANGED <<coreVars, kbVars, connVars, keymap_sent,
                         entered_window_, called, pressed, last_click,
                         pixVars, mmaps, acked, pc>>

\* cv_wl_core::destroy_all_windows
destroy_all_windows ==
    /\ windows_' = EmptyMap
    /\ heap' = EmptyMap
    /\ held' = {}
    /\ wire' = DropDead(wire, {})
    /\ pointer_on' = <<>>
    /\ last' = Ret("destroy_all_windows", "", 0, "")
    /\ UNCHANGED handles_

CvDestroyAllWindows ==
    /\ pc = Idle
    /\ \/ NullCore
       \/ /\ g_core # "null"
          /\ destroy_all_windows
          /\ UNCHANGED <<coreVars, kbVars, connVars, keymap_sent,
                         entered_window_, called, pressed, last_click,
                         pixVars, mmaps, acked, pc>>

\* cvGetWindowHandle: get_window(name).get(); at() throws for an unknown name
CvGetWindowHandle(name) ==
    /\ pc = Idle
    /\ \/ NullCore
       \/ /\ g_core # "null"
          /\ last' = IF get_window(name) = 0
                     THEN Ret("cvGetWindowHandle", name, 0, "out_of_range")
                     ELSE Ret("cvGetWindowHandle", name, get_window(name), "")
          /\ UNCHANGED <<coreVars, regVars, kbVars, connVars, wire, held,
                         keymap_sent, ptrVars, pixVars, mmaps, acked, pc>>

\* cv_wl_core::get_window_name: handles_[handle] creates a missing entry
get_window_name(handle) ==
    /\ handles_' = IF handle \in DOMAIN handles_ THEN handles_
                   ELSE map_assign(handles_, handle, "")
    /\ last' = Ret("get_window_name",
                   IF handle \in DOMAIN handles_ THEN handles_[handle] ELSE "",
                   handle, "")

CvGetWindowName(handle) ==
    /\ pc = Idle
    /\ \/ NullCore
       \/ /\ g_core # "null"
          /\ get_window_name(handle)
          /\ UNCHANGED <<coreVars, windows_, heap, kbVars, connVars, wire,
                         held, keymap_sent, ptrVars, pixVars, mmaps, acked, pc>>

\* --------------------------------------------- window and its buffers
\* busy() that forgets to store the flag
busy_dropped(b, v) == b

\* cv_wl_buffer::busy
busy(b, v) == [b EXCEPT !.busy = v]

\* cv_wl_buffer::create_shm: destroy() and a new backing of the given size;
\* when shm_open, ftruncate or mmap fails it throws with no buffer made
create_shm(b, width, height, ok) ==
    [b EXCEPT !.buffer = ok, !.width = width, !.height = height]

\* the mmap of create_shm: one more mapping; neither destroy() nor anything
\* else in the file calls munmap on it
mmap(n) == IF n < MaxMaps THEN n + 1 ELSE n

\* next_buffer without the test of the second buffer
next_buffer_unchecked(bufs) == IF ~bufs[0].busy THEN 0 ELSE 1

\* the selection of cv_wl_window::next_buffer after one roundtrip: the index
\* of the buffer taken, -1 when the loop goes round again
next_buffer(bufs) ==
    IF ~bufs[0].busy THEN 0
    ELSE IF ~bufs[1].busy THEN 1
    ELSE -1

\* a test that makes a backing only where there is none
needs_create_absent(b, win) == ~b.buffer

\* next_buffer's test for making a new backing
needs_create(b, win) ==
    ~b.buffer \/ b.width # win.width \/ b.height # win.height

\* wl_display_roundtrip / wl_display_dispatch: everything the compositor sent
\* before the mark is dispatched; on a dead connection the call returns at
\* once and dispatches nothing
Dispatches(w) ==
    IF fatal \/ sock = "broken" THEN <<Mark>> \o w ELSE Append(w, Mark)

Dispatching == pc.at \in {"roundtrip", "dispatch"}

\* events of a wl_buffer that was destroyed are dropped
RECURSIVE DropBuffer(_, _, _)
DropBuffer(s, a, i) ==
    IF s = <<>> THEN <<>>
    ELSE IF Head(s) = Msg("release", a, i)
         THEN DropBuffer(Tail(s), a, i)
         ELSE <<Head(s)>> \o DropBuffer(Tail(s), a, i)

\* cvShowImage up to the first roundtrip of next_buffer
CvShowImage(name, dim) ==
    /\ pc = Idle
    /\ \/ NullCore
       \/ /\ g_core # "null"
          /\ get_window(name) = 0
          /\ last' = Ret("cvShowImage", name, 0, "out_of_range")
          /\ UNCHANGED <<coreVars, regVars, kbVars, connVars, wire, held,
                         keymap_sent, ptrVars, pixVars, mmaps, acked, pc>>
       \/ /\ g_core # "null"
          /\ get_window(name) # 0
          /\ heap' = [heap EXCEPT ![get_window(name)].width = dim[1],
                                  ![get_window(name)].height = dim[2]]
          /\ pc' = [op |-> "show_image", at |-> "roundtrip",
                    w |-> get_window(name), delay |-> 0, ev |-> {},
                    dim |-> dim]
          /\ wire' = Dispatches(wire)
          /\ UNCHANGED <<coreVars, windows_, handles_, kbVars, connVars, held,
                         keymap_sent, ptrVars, pixVars, mmaps, acked, last>>

\* the roundtrip of next_buffer has returned: select a buffer or go round
\* again; then the rest of show_image
show_image ==
    /\ pc.op = "show_image"
    /\ wire # <<>> /\ Head(wire) = Mark
    /\ LET a == pc.w
           win == heap[a]
           i == next_buffer(win.buffers_)
       IN IF i = -1
          THEN /\ wire' = Dispatches(Tail(wire))
               /\ UNCHANGED <<heap, held, mmaps, pc, last>>
          ELSE IF needs_create(win.buffers_[i], win)
          THEN \E ok \in BOOLEAN :
               LET made == create_shm(win.buffers_[i], win.width, win.height, ok)
               IN /\ wire' = DropBuffer(Tail(wire), a, i)
                  /\ pc' = Idle
                  /\ mmaps' = IF ok THEN mmap(mmaps) ELSE mmaps
                  /\ IF ok
                     THEN /\ heap' = [heap EXCEPT ![a].buffers_[i] = busy(made, TRUE)]
                          /\ held' = held \cup {<<a, i>>}
                          /\ last' = Ret("cvShowImage", win.name, i, "")
                     ELSE /\ heap' = [heap EXCEPT ![a].buffers_[i] = made]
                          /\ held' = held \ {<<a, i>>}
                          /\ last' = Ret("cvShowImage", win.name, i, "system_error")
          ELSE /\ wire' = Tail(wire)
               /\ pc' = Idle
               /\ mmaps' = mmaps
               /\ heap' = [heap EXCEPT ![a].buffers_[i] = busy(win.buffers_[i], TRUE)]
               /\ held' = held \cup {<<a, i>>}
               /\ last' = Ret("cvShowImage", win.name, i, "")
    /\ UNCHANGED <<coreVars, windows_, handles_, kbVars, connVars, keymap_sent,
                   ptrVars, pixVars, acked>>

\* the compositor is done reading a buffer and says so
CompositorRelease(a, i) ==
    /\ pc.op # "crashed"
    /\ <<a, i>> \in held
    /\ Traffic < MaxWire
    /\ held' = held \ {<<a, i>>}
    /\ wire' = Append(wire, Msg("release", a, i))
    /\ UNCHANGED <<coreVars, regVars, kbVars, connVars, keymap_sent, ptrVars, pixVars, mmaps, acked, pc, last>>

\* a release handler that leaves the buffer busy
handle_buffer_release_ignored ==
    /\ Dispatching
    /\ wire # <<>> /\ Head(wire).kind = "release"
    /\ wire' = Tail(wire)
    /\ UNCHANGED <<coreVars, regVars, kbVars, connVars, held,
                   keymap_sent, ptrVars, pixVars, mmaps, acked, pc, last>>

\* cv_wl_buffer::handle_buffer_release
handle_buffer_release ==
    /\ Dispatching
    /\ wire # <<>> /\ Head(wire).kind = "release"
    /\ heap' = [heap EXCEPT ![Head(wire).a].buffers_[Head(wire).b] =
                                busy(@, FALSE)]
    /\ wire' = Tail(wire)
    /\ UNCHANGED <<coreVars, windows_, handles_, kbVars, connVars, held,
                   keymap_sent, ptrVars, pixVars, mmaps, acked, pc, last>>

\* ------------------------------------------------------------ keyboard
\* the compositor announces the keymap, once, after wl_seat_get_keyboard
CompositorKeymap(format) ==
    /\ pc.op # "crashed"
    /\ keyboard_ /\ ~keymap_sent
    /\ Traffic < MaxWire
    /\ keymap_sent' = TRUE
    /\ wire' = Append(wire, Msg("keymap", format, 0))
    /\ UNCHANGED <<coreVars, regVars, kbVars, connVars, held, ptrVars, pixVars, mmaps, acked,
                   pc, last>>

\* the compositor reports a key of the keyboard to the client, which has a
\* surface to hold the keyboard focus
CompositorKey(raw, state) ==
    /\ pc.op # "crashed"
    /\ keyboard_ /\ keymap_sent
    /\ DOMAIN heap # {}
    /\ Traffic < MaxWire
    /\ Len(key_queue_) + InFlight("key") < MaxKeys
    /\ wire' = Append(wire, Msg("key", raw, state))
    /\ UNCHANGED <<coreVars, regVars, kbVars, connVars, held, keymap_sent, ptrVars, pixVars, mmaps, acked,
                   pc, last>>

\* cv_wl_keyboard::handle_kb_keymap: the state is made only when the format
\* is XKB_V1 and mmap, the compilation and xkb_state_new all succeed
handle_kb_keymap ==
    /\ Dispatching
    /\ wire # <<>> /\ Head(wire).kind = "keymap"
    /\ wire' = Tail(wire)
    /\ IF Head(wire).a # WL_KEYBOARD_KEYMAP_FORMAT_XKB_V1
       THEN UNCHANGED xkb_state
       ELSE \E outcome \in {"mmap_failed", "compile_failed", "state_failed", "ok"} :
                xkb_state' = IF outcome = "ok" THEN "valid" ELSE xkb_state
    /\ UNCHANGED <<coreVars, regVars, key_queue_, connVars, held, keymap_sent, ptrVars, pixVars, mmaps, acked,
                   pc, last>>

xkb_keycode_from_raw_keycode(raw_keycode) == raw_keycode + 8

xkb_keysym_to_ascii(keysym) == keysym % 256

\* xkb_state_key_get_one_sym under the compiled layout: Return and a
xkb_state_key_get_one_sym(keycode) ==
    CASE keycode = 36 -> 65293
      [] keycode = 38 -> 97
      [] OTHER -> 0

\* what xkb_state_key_get_one_sym may hand back when given a null state, if
\* the dereference does not end the process
NullStateSyms == {0, 65293}

\* cv_wl_keyboard::handle_kb_key
handle_kb_key ==
    /\ Dispatching
    /\ wire # <<>> /\ Head(wire).kind = "key"
    /\ wire' = Tail(wire)
    /\ LET keycode == xkb_keycode_from_raw_keycode(Head(wire).a) IN
       IF Head(wire).b # WL_KEYBOARD_KEY_STATE_RELEASED
       THEN UNCHANGED <<key_queue_, pc>>
       ELSE IF xkb_state = "valid"
       THEN /\ key_queue_' = Append(key_queue_,
                    xkb_keysym_to_ascii(xkb_state_key_get_one_sym(keycode)))
            /\ pc' = pc
       ELSE \* xkb_.state is null: undefined behaviour inside libxkbcommon
            \/ /\ pc' = Crashed
               /\ UNCHANGED key_queue_
            \/ \E keysym \in NullStateSyms :
                   /\ key_queue_' = Append(key_queue_, xkb_keysym_to_ascii(keysym))
                   /\ pc' = pc
    /\ UNCHANGED <<coreVars, regVars, xkb_state, connVars, held, keymap_sent, ptrVars, pixVars, mmaps, acked, last>>

\* get_key reading front() instead of back()
get_key_front(queue) ==
    [key |-> IF queue = <<>> THEN -1 ELSE queue[1], queue |-> <<>>]

\* cv_wl_keyboard::get_key on a queue: the key returned and the queue left
get_key(queue) ==
    [key |-> IF queue = <<>> THEN -1 ELSE queue[Len(queue)], queue |-> <<>>]

\* --------------------------------------------------------------- mouse
\* raw button codes the compositor reports: left, right, middle, side
Buttons == {LBUTTON, RBUTTON, MBUTTON, 275}
\* pointer positions (sx, sy) as wl_fixed_t, 24.8 fixed point: (1.5, 2.0)
\* and (4.0, 1.0)
Points == {<<384, 512>>, <<1024, 256>>}

\* wl_fixed_to_int: f / 256 in C, which truncates towards zero
wl_fixed_to_int(f) == IF f >= 0 THEN f \div 256 ELSE -((-f) \div 256)

\* no button event was sent yet
NoClick == [button |-> NONE, state |-> WL_POINTER_BUTTON_STATE_RELEASED]
\* no callback was called yet
NoCall == [win |-> 0, event |-> 0, x |-> 0, y |-> 0, flag |-> 0]

\* cv_wl_window::call_mouse_callback on the window at address a: the call
\* the application sees last
call_mouse_callback(a, win, event, x, y, flag) ==
    IF win.on_mouse_.callback
    THEN [win |-> a, event |-> event, x |-> x, y |-> y, flag |-> flag]
    ELSE called

\* cv_wl_window::mouse_enter: the window it leaves and the callback's
\* arguments
mouse_enter(win, x, y) ==
    [win |-> [win EXCEPT !.on_mouse_.last_x = x, !.on_mouse_.last_y = y],
     event |-> EVENT_MOUSEMOVE, x |-> x, y |-> y, flag |-> 0]

\* the flag mouse_motion's switch gives a button
motion_flag(button) ==
    CASE button = LBUTTON -> EVENT_FLAG_LBUTTON
      [] button = RBUTTON -> EVENT_FLAG_RBUTTON
      [] button = MBUTTON -> EVENT_FLAG_MBUTTON
      [] OTHER -> 0

\* mouse_motion that reports the button whether or not a drag is active
mouse_motion_sticky(win, x, y) ==
    [win |-> [win EXCEPT !.on_mouse_.last_x = x, !.on_mouse_.last_y = y],
     event |-> EVENT_MOUSEMOVE, x |-> x, y |-> y,
     flag |-> motion_flag(win.on_mouse_.button)]

\* cv_wl_window::mouse_motion
mouse_motion(win, x, y) ==
    [win |-> [win EXCEPT !.on_mouse_.last_x = x, !.on_mouse_.last_y = y],
     event |-> EVENT_MOUSEMOVE, x |-> x, y |-> y,
     flag |-> IF win.on_mouse_.drag THEN motion_flag(win.on_mouse_.button)
              ELSE 0]

\* cv_wl_window::mouse_button; event and flag start at 0 and stay 0 for a
\* button the switch does not name
mouse_button(win, button, state) ==
    LET drag == (state = WL_POINTER_BUTTON_STATE_PRESSED) IN
    [win |-> [win EXCEPT !.on_mouse_.button = button, !.on_mouse_.drag = drag],
     event |-> CASE button = LBUTTON ->
                      IF drag THEN EVENT_LBUTTONDOWN ELSE EVENT_LBUTTONUP
                 [] button = RBUTTON ->
                      IF drag THEN EVENT_RBUTTONDOWN ELSE EVENT_RBUTTONUP
                 [] button = MBUTTON ->
                      IF drag THEN EVENT_MBUTTONDOWN ELSE EVENT_MBUTTONUP
                 [] OTHER -> 0,
     x |-> win.on_mouse_.last_x, y |-> win.on_mouse_.last_y,
     flag |-> CASE button = LBUTTON -> EVENT_FLAG_LBUTTON
                [] button = RBUTTON -> EVENT_FLAG_RBUTTON
                [] button = MBUTTON -> EVENT_FLAG_MBUTTON
                [] OTHER -> 0]

\* cvSetMouseCallback with a callback that is null or not
CvSetMouseCallback(name, on_mouse) ==
    /\ pc = Idle
    /\ \/ NullCore
       \/ /\ g_core # "null"
          /\ IF get_window(name) = 0
             THEN /\ last' = Ret("cvSetMouseCallback", name, 0, "out_of_range")
                  /\ heap' = heap
             ELSE /\ last' = Ret("cvSetMouseCallback", name, 0, "")
                  /\ heap' = [heap EXCEPT
                                ![get_window(name)].on_mouse_.callback = on_mouse]
          /\ UNCHANGED <<coreVars, windows_, handles_, kbVars, connVars, wire,
                         held, keymap_sent, ptrVars, pixVars, mmaps, acked, pc>>

\* s without its last occurrence of x
RECURSIVE RemoveLast(_, _)
RemoveLast(s, x) ==
    IF s = <<>> THEN <<>>
    ELSE IF s[Len(s)] = x THEN SubSeq(s, 1, Len(s) - 1)
    ELSE Append(RemoveLast(SubSeq(s, 1, Len(s) - 1), x), s[Len(s)])

\* pointer events the compositor sent that are not dispatched yet
PointerTraffic ==
    InFlight("enter") + InFlight("leave") + InFlight("motion")
        + InFlight("button")

\* the pointer moves onto the surface of window a; while a button is down
\* the compositor keeps the pointer focus where it is
CompositorEnter(a, p) ==
    /\ pc.op # "crashed"
    /\ mouse_ /\ a \in DOMAIN heap
    /\ \A i \in 1..Len(pointer_on) : pointer_on[i] # a
    /\ pressed = {}
    /\ Traffic < MaxWire /\ PointerTraffic < MaxPointer
    /\ Len(entered_window_) + InFlight("enter") < MaxEntered
    /\ pointer_on' = Append(pointer_on, a)
    /\ wire' = Append(wire, Msg3("enter", a, p[1], p[2]))
    /\ UNCHANGED <<coreVars, regVars, kbVars, connVars, held, keymap_sent,
                   entered_window_, called, pressed, last_click, pixVars, mmaps, acked,
                   pc, last>>

\* the pointer moves off the surface of window a
CompositorLeave(a) ==
    /\ pc.op # "crashed"
    /\ \E i \in 1..Len(pointer_on) : pointer_on[i] = a
    /\ pressed = {}
    /\ Traffic < MaxWire /\ PointerTraffic < MaxPointer
    /\ pointer_on' = RemoveLast(pointer_on, a)
    /\ wire' = Append(wire, Msg("leave", a, 0))
    /\ UNCHANGED <<coreVars, regVars, kbVars, connVars, held, keymap_sent,
                   entered_window_, called, pressed, last_click, pixVars, mmaps, acked,
                   pc, last>>

\* the pointer moves within the surface it is on
CompositorMotion(p) ==
    /\ pc.op # "crashed"
    /\ pointer_on # <<>>
    /\ Traffic < MaxWire /\ PointerTraffic < MaxPointer
    /\ wire' = Append(wire, Msg("motion", p[1], p[2]))
    /\ UNCHANGED <<coreVars, regVars, kbVars, connVars, held, keymap_sent,
                   ptrVars, pixVars, mmaps, acked, pc, last>>

\* a button goes down or up while the pointer is on a surface
CompositorButton(button, state) ==
    /\ pc.op # "crashed"
    /\ pointer_on # <<>>
    /\ (state = WL_POINTER_BUTTON_STATE_PRESSED) = (button \notin pressed)
    /\ Traffic < MaxWire /\ PointerTraffic < MaxPointer
    /\ pressed' = IF state = WL_POINTER_BUTTON_STATE_PRESSED
                  THEN pressed \cup {button} ELSE pressed \ {button}
    /\ last_click' = [button |-> button, state |-> state]
    /\ wire' = Append(wire, Msg("button", button, state))
    /\ UNCHANGED <<coreVars, regVars, kbVars, connVars, held, keymap_sent,
                   entered_window_, called, pointer_on, pixVars, mmaps, acked, pc, last>>

\* a call through a window pointer: on a window that is not alive, or on
\* the front() of an empty queue, the behaviour is undefined and the
\* process is taken to end
Deref(a, then) ==
    IF a \in DOMAIN heap THEN then
    ELSE /\ pc' = Crashed
         /\ UNCHANGED <<heap, called, entered_window_>>

\* std::queue::front
queue_front(q) == IF q = <<>> THEN 0 ELSE q[1]
\* std::queue::push
queue_push(q, x) == Append(q, x)
\* std::queue::pop
queue_pop(q) == IF q = <<>> THEN q ELSE Tail(q)

\* cv_wl_mouse::handle_pointer_enter
handle_pointer_enter ==
    /\ Dispatching
    /\ wire # <<>> /\ Head(wire).kind = "enter"
    /\ wire' = Tail(wire)
    /\ LET a == Head(wire).a
           x == wl_fixed_to_int(Head(wire).b)
           y == wl_fixed_to_int(Head(wire).c)
       IN Deref(a,
            LET r == mouse_enter(heap[a], x, y) IN
            /\ entered_window_' = queue_push(entered_window_, a)
            /\ heap' = [heap EXCEPT ![a] = r.win]
            /\ called' = call_mouse_callback(a, heap[a], r.event, r.x, r.y, r.flag)
            /\ pc' = pc)
    /\ UNCHANGED <<coreVars, windows_, handles_, kbVars, connVars, held,
                   keymap_sent, pointer_on, pressed, last_click, pixVars, mmaps, acked, last>>

\* cv_wl_mouse::handle_pointer_leave: mouse_leave() does nothing
handle_pointer_leave ==
    /\ Dispatching
    /\ wire # <<>> /\ Head(wire).kind = "leave"
    /\ wire' = Tail(wire)
    /\ Deref(Head(wire).a,
             /\ entered_window_' = queue_pop(entered_window_)
             /\ pc' = pc
             /\ UNCHANGED <<heap, called>>)
    /\ UNCHANGED <<coreVars, windows_, handles_, kbVars, connVars, held,
                   keymap_sent, pointer_on, pressed, last_click, pixVars, mmaps, acked, last>>

\* cv_wl_mouse::handle_pointer_motion
handle_pointer_motion ==
    /\ Dispatching
    /\ wire # <<>> /\ Head(wire).kind = "motion"
    /\ wire' = Tail(wire)
    /\ LET a == queue_front(entered_window_)
           x == wl_fixed_to_int(Head(wire).a)
           y == wl_fixed_to_int(Head(wire).b)
       IN Deref(a,
            LET r == mouse_motion(heap[a], x, y) IN
            /\ heap' = [heap EXCEPT ![a] = r.win]
            /\ called' = call_mouse_callback(a, heap[a], r.event, r.x, r.y, r.flag)
            /\ pc' = pc
            /\ UNCHANGED entered_window_)
    /\ UNCHANGED <<coreVars, windows_, handles_, kbVars, connVars, held,
                   keymap_sent, pointer_on, pressed, last_click, pixVars, mmaps, acked, last>>

\* cv_wl_mouse::handle_pointer_button
handle_pointer_button ==
    /\ Dispatching
    /\ wire # <<>> /\ Head(wire).kind = "button"
    /\ wire' = Tail(wire)
    /\ LET a == queue_front(entered_window_)
       IN Deref(a,
            LET r == mouse_button(heap[a], Head(wire).a, Head(wire).b) IN
            /\ heap' = [heap EXCEPT ![a] = r.win]
            /\ called' = call_mouse_callback(a, heap[a], r.event, r.x, r.y, r.flag)
            /\ pc' = pc
            /\ UNCHANGED entered_window_)
    /\ UNCHANGED <<coreVars, windows_, handles_, kbVars, connVars, held,
                   keymap_sent, pointer_on, pressed, last_click, pixVars, mmaps, acked, last>>

\* ------------------------------------------------- run_once and cvWaitKey
\* the socket's send buffer fills and drains, and the connection can die
SocketFills ==
    /\ pc.op # "crashed" /\ display_ = "ready"
    /\ sock = "ok" /\ sock' = "full"
    /\ UNCHANGED <<coreVars, regVars, kbVars, fatal, wire, held, keymap_sent, ptrVars, pixVars, mmaps, acked,
                   pc, last>>

SocketDrains ==
    /\ pc.op # "crashed"
    /\ sock = "full" /\ sock' = "ok"
    /\ UNCHANGED <<coreVars, regVars, kbVars, fatal, wire, held, keymap_sent, ptrVars, pixVars, mmaps, acked,
                   pc, last>>

ConnectionBreaks ==
    /\ pc.op # "crashed" /\ display_ = "ready"
    /\ sock # "broken" /\ sock' = "broken"
    /\ UNCHANGED <<coreVars, regVars, kbVars, fatal, wire, held, keymap_sent, ptrVars, pixVars, mmaps, acked,
                   pc, last>>

\* wl_display_flush: "sent" (> 0 bytes), "zero" (nothing to send), "EAGAIN"
\* or "error"; what is queued for sending is not tracked
flush ==
    IF fatal \/ sock = "broken" THEN {"error"}
    ELSE IF sock = "full" THEN {"EAGAIN", "zero"}
    ELSE {"sent", "zero", "error"}

\* the events epoll reports for the display fd, level triggered; error and
\* hang-up are reported whether asked for or not
Ready ==
    (IF wire # <<>> \/ sock = "broken" THEN {"EPOLLIN"} ELSE {})
    \cup (IF sock = "ok" THEN {"EPOLLOUT"} ELSE {})
    \cup (IF sock = "broken" THEN {"EPOLLHUP"} ELSE {})
Fired == Ready \cap (interest \cup {"EPOLLERR", "EPOLLHUP"})

\* a wait that gives up whatever the timeout
wait_gives_up(timeout) == TRUE

\* epoller::wait: epoll_wait returns without an event only when the timeout
\* is not negative
wait_times_out(timeout) == timeout >= 0

\* cvWaitKey's argument to run_once
Timeout(delay) == IF delay > 0 THEN delay ELSE -1

\* delays cvWaitKey is called with
Delays == {0, 10}

CvWaitKey(delay) ==
    /\ pc = Idle
    /\ \/ NullCore
       \/ /\ g_core # "null" /\ display_ = "null"
          \* g_core->display()->run_once through a null shared_ptr
          /\ pc' = Crashed
          /\ UNCHANGED <<coreVars, regVars, kbVars, connVars, wire, held,
                         keymap_sent, ptrVars, pixVars, mmaps, acked, last>>
       \/ /\ g_core # "null" /\ display_ = "ready"
          /\ pc' = [op |-> "cvWaitKey", at |-> "run_once", w |-> 0,
                    delay |-> delay, ev |-> {}, dim |-> <<0, 0>>]
          /\ UNCHANGED <<coreVars, regVars, kbVars, connVars, wire, held,
                         keymap_sent, ptrVars, pixVars, mmaps, acked, last>>

\* run_once that goes on to the wait after a flush that failed
run_once_waits_after_error ==
    /\ pc.op = "cvWaitKey" /\ pc.at = "run_once"
    /\ \E ret \in flush :
         /\ fatal' = (fatal \/ (ret = "error" /\ sock # "broken"))
         /\ interest' = IF ret = "EAGAIN" THEN AllEvents ELSE interest
         /\ pc' = [pc EXCEPT !.at = "wait"]
         /\ last' = last
    /\ UNCHANGED <<g_core, display_, keyboard_, mouse_, regVars, kbVars, sock,
                   wire, held, keymap_sent, ptrVars, pixVars, mmaps, acked>>

\* run_once up to the wait: dispatch_pending (libwayland has no event read
\* and not dispatched between two calls), flush, and the interest or the
\* early return that follows from it; a return of 0 sends cvWaitKey round
run_once ==
    /\ pc.op = "cvWaitKey" /\ pc.at = "run_once"
    /\ \E ret \in flush :
         /\ fatal' = (fatal \/ (ret = "error" /\ sock # "broken"))
         /\ interest' = IF ret = "EAGAIN" THEN AllEvents ELSE interest
         /\ IF ret = "error"
            THEN /\ last' = RetEv("run_once", "flush_failed", 0, {},
                                  Timeout(pc.delay))
                 /\ pc' = pc
            ELSE /\ pc' = [pc EXCEPT !.at = "wait"]
                 /\ last' = last
    /\ UNCHANGED <<g_core, display_, keyboard_, mouse_, regVars, kbVars, sock,
                   wire, held, keymap_sent, ptrVars, pixVars, mmaps, acked>>

\* a second flush that drops the interest whatever the flush returned
flush_on_writable_any(events, ret) ==
    IF "EPOLLOUT" \in events THEN ReadEvents ELSE interest

\* the second flush of run_once, on EPOLLOUT: the interest it leaves
flush_on_writable(events, ret) ==
    IF "EPOLLOUT" \in events /\ ret = "zero" THEN ReadEvents ELSE interest

\* epoller::wait returns with events: with EPOLLIN, dispatch(); without,
\* run_once returns them and cvWaitKey goes round
epoll_wait ==
    /\ pc.op = "cvWaitKey" /\ pc.at = "wait"
    /\ Fired # {}
    /\ IF "EPOLLIN" \in Fired
       THEN /\ pc' = [pc EXCEPT !.at = "dispatch", !.ev = Fired]
            /\ wire' = Dispatches(wire)
            /\ UNCHANGED <<interest, fatal, last>>
       ELSE \E ret \in flush :
            /\ fatal' = (fatal \/ (ret = "error" /\ sock # "broken"))
            /\ interest' = flush_on_writable(Fired, ret)
            /\ last' = RetEv("run_once", "events", 1, Fired, Timeout(pc.delay))
            /\ pc' = [pc EXCEPT !.at = "run_once"]
            /\ wire' = wire
    /\ UNCHANGED <<g_core, display_, keyboard_, mouse_, regVars, kbVars, sock,
                   held, keymap_sent, ptrVars, pixVars, mmaps, acked>>

\* epoller::wait times out: the event array stays zeroed, run_once returns 0
\* and cvWaitKey goes round
epoll_timeout ==
    /\ pc.op = "cvWaitKey" /\ pc.at = "wait"
    /\ Fired = {}
    /\ wait_times_out(Timeout(pc.delay))
    /\ last' = RetEv("run_once", "timeout", 0, {}, Timeout(pc.delay))
    /\ pc' = [pc EXCEPT !.at = "run_once"]
    /\ UNCHANGED <<coreVars, regVars, kbVars, connVars, wire, held, keymap_sent, ptrVars, pixVars, mmaps, acked>>

\* dispatch() has returned: the flush on EPOLLOUT, the return of run_once,
\* and cvWaitKey's use of the events (EPOLLIN is among them)
cvWaitKey ==
    /\ pc.op = "cvWaitKey" /\ pc.at = "dispatch"
    /\ wire # <<>> /\ Head(wire) = Mark
    /\ wire' = Tail(wire)
    /\ \E ret \in flush :
         /\ fatal' = (fatal \/ (ret = "error" /\ sock # "broken"
                                 /\ "EPOLLOUT" \in pc.ev))
         /\ interest' = flush_on_writable(pc.ev, ret)
    /\ IF ~keyboard_
       THEN \* cv_wl_input::keyboard() throws
            /\ pc' = Idle
            /\ last' = Ret("cvWaitKey", "", -1, "runtime_error")
            /\ UNCHANGED key_queue_
       ELSE LET got == get_key(key_queue_) IN
            /\ key_queue_' = got.queue
            /\ IF got.key >= 0
               THEN /\ pc' = Idle
                    /\ last' = RetEv("cvWaitKey", "", got.key, pc.ev, Len(key_queue_))
               ELSE /\ pc' = [pc EXCEPT !.at = "run_once", !.ev = {}]
                    /\ last' = RetEv("get_key", "", got.key, pc.ev, Len(key_queue_))
    /\ UNCHANGED <<g_core, display_, keyboard_, mouse_, regVars, xkb_state, sock,
                   held, keymap_sent, ptrVars, pixVars, mmaps, acked>>

\* ------------------------------------------------------ pixel conversion
\* channel bytes of the source images
Bytes == {10, 20, 30, 255}
\* (cols, rows) of the source images
MatDims == {<<1, 1>>, <<2, 1>>, <<1, 2>>}
\* a CvMat of d = (cols, rows) whose rows are `step` bytes apart: the bytes
\* data.ptr points at are the channels `pix` of the pixels, row by row, and
\* 0 in the padding that ends a row
CvMat(d, step, pix) ==
    [rows |-> d[2], cols |-> d[1], step |-> step,
     data |-> [i \in 0..(step * d[2] - 1) |->
                 IF (i % step) < 3 * d[1]
                 THEN pix[(i \div step) * 3 * d[1] + (i % step)] ELSE 0]]
NoMat == [rows |-> 0, cols |-> 0, step |-> 0, data |-> <<>>]

\* x | y on non-negative integers
RECURSIVE BitOr(_, _)
BitOr(x, y) ==
    IF x = 0 THEN y
    ELSE IF y = 0 THEN x
    ELSE (IF x % 2 = 1 \/ y % 2 = 1 THEN 1 ELSE 0) + 2 * BitOr(x \div 2, y \div 2)

\* draw_argb8888 with red and blue exchanged
draw_argb8888_swapped(a, r, g, b) ==
    BitOr(BitOr(a * 2^24, b * 2^16), BitOr(g * 2^8, r))

\* draw_argb8888: the uint32_t stored, (a << 24) | (r << 16) | (g << 8) | b;
\* its one caller passes 0 for a, so the shifts stay within 32 bits
draw_argb8888(a, r, g, b) ==
    BitOr(BitOr(a * 2^24, r * 2^16), BitOr(g * 2^8, b))

\* the body of write_mat_to_xrgb8888's loops: the pixel at (x, y)
write_pixel(m, data, x, y) ==
    LET p == [k \in 0..2 |-> m.data[m.step * y + x * 3 + k]]
    IN [data EXCEPT ![y * m.cols + x] = draw_argb8888(0, p[2], p[1], p[0])]

RECURSIVE write_row(_, _, _, _)
write_row(m, data, x, y) ==
    IF x < m.cols THEN write_row(m, write_pixel(m, data, x, y), x + 1, y)
    ELSE data

RECURSIVE write_rows(_, _, _)
write_rows(m, data, y) ==
    IF y < m.rows THEN write_rows(m, write_row(m, data, 0, y), y + 1)
    ELSE data

\* write_mat_to_xrgb8888 on a mapping of cols * rows pixels: what it holds
\* when the loops are done
write_mat_to_xrgb8888(m, data) == write_rows(m, data, 0)

\* show_image converts a frame into the buffer next_buffer gave it, a
\* mapping of width_ * height_ pixels made for the frame's size
ConvertFrame ==
    /\ pc = Idle /\ mat = NoMat
    /\ \E d \in MatDims, pad \in {0, 1} :
       \E pix \in [0..(3 * d[1] * d[2] - 1) -> Bytes] :
         LET m == CvMat(d, 3 * d[1] + pad, pix) IN
         /\ mat' = m
         /\ shm_data' = write_mat_to_xrgb8888(m,
                            [i \in 0..(m.cols * m.rows - 1) |-> 0])
    /\ UNCHANGED <<coreVars, regVars, kbVars, connVars, wire, held, keymap_sent,
                   ptrVars, mmaps, acked, pc, last>>

\* ------------------------------------------------------ window geometry
\* cvMoveWindow: the body is empty
CvMoveWindow(name, x, y) ==
    /\ pc = Idle
    /\ last' = [Ret("cvMoveWindow", name, 0, "") EXCEPT !.arg = x]
    /\ UNCHANGED <<coreVars, regVars, kbVars, connVars, wire, held, keymap_sent,
                   ptrVars, pixVars, mmaps, acked, pc>>

\* cvResizeWindow: the body is empty
CvResizeWindow(name, width, height) ==
    /\ pc = Idle
    /\ last' = [Ret("cvResizeWindow", name, 0, "") EXCEPT !.arg = width]
    /\ UNCHANGED <<coreVars, regVars, kbVars, connVars, wire, held, keymap_sent,
                   ptrVars, pixVars, mmaps, acked, pc>>

\* the compositor proposes a size for the surface of window a
CompositorConfigure(a, width, height, serial) ==
    /\ pc.op # "crashed"
    /\ a \in DOMAIN heap
    /\ Traffic < MaxWire
    /\ wire' = Append(wire, Msg4("configure", a, width, height, serial))
    /\ UNCHANGED <<coreVars, regVars, kbVars, connVars, held, keymap_sent,
                   ptrVars, pixVars, mmaps, acked, pc, last>>

\* a configure handler that takes the proposed size
handle_surface_configure_resizes ==
    /\ Dispatching
    /\ wire # <<>> /\ Head(wire).kind = "configure"
    /\ wire' = Tail(wire)
    /\ heap' = [heap EXCEPT ![Head(wire).a].width = Head(wire).b,
                            ![Head(wire).a].height = Head(wire).c]
    /\ acked' = Answer("ack_configure", Head(wire).a, Head(wire).serial)
    /\ UNCHANGED <<coreVars, windows_, handles_, kbVars, connVars, held,
                   keymap_sent, ptrVars, pixVars, mmaps, pc, last>>

\* cv_wl_window::handle_surface_configure: xdg_surface_ack_configure, no
\* more; the acknowledgement is queued for sending
handle_surface_configure ==
    /\ Dispatching
    /\ wire # <<>> /\ Head(wire).kind = "configure"
    /\ wire' = Tail(wire)
    /\ acked' = Answer("ack_configure", Head(wire).a, Head(wire).serial)
    /\ UNCHANGED <<coreVars, regVars, kbVars, connVars, held, keymap_sent,
                   ptrVars, pixVars, mmaps, pc, last>>

\* the shell asks whether the client is alive
CompositorPing(serial) ==
    /\ pc.op # "crashed"
    /\ display_ = "ready"
    /\ Traffic < MaxWire
    /\ wire' = Append(wire, Msg4("ping", 0, 0, 0, serial))
    /\ UNCHANGED <<coreVars, regVars, kbVars, connVars, held, keymap_sent,
                   ptrVars, pixVars, mmaps, acked, pc, last>>

\* a ping handler that answers with the serial of the ping before
handle_shell_ping_stale ==
    /\ Dispatching
    /\ wire # <<>> /\ Head(wire).kind = "ping"
    /\ wire' = Tail(wire)
    /\ acked' = Answer("pong", 0, acked.serial)
    /\ UNCHANGED <<coreVars, regVars, kbVars, connVars, held, keymap_sent,
                   ptrVars, pixVars, mmaps, pc, last>>

\* cv_wl_display::handle_shell_ping: xdg_shell_pong with the ping's serial
handle_shell_ping ==
    /\ Dispatching
    /\ wire # <<>> /\ Head(wire).kind = "ping"
    /\ wire' = Tail(wire)
    /\ acked' = Answer("pong", 0, Head(wire).serial)
    /\ UNCHANGED <<coreVars, regVars, kbVars, connVars, held, keymap_sent,
                   ptrVars, pixVars, mmaps, pc, last>>

Init ==
    /\ g_core = "null"
    /\ display_ = "null"
    /\ windows_ = EmptyMap
    /\ handles_ = EmptyMap
    /\ heap = EmptyMap
    /\ keyboard_ = FALSE
    /\ mouse_ = FALSE
    /\ xkb_state = "null"
    /\ key_queue_ = <<>>
    /\ interest = {}
    /\ sock = "ok"
    /\ fatal = FALSE
    /\ wire = <<>>
    /\ held = {}
    /\ keymap_sent = FALSE
    /\ entered_window_ = <<>>
    /\ called = NoCall
    /\ pointer_on = <<>>
    /\ pressed = {}
    /\ last_click = NoClick
    /\ mat = NoMat
    /\ shm_data = <<>>
    /\ mmaps = 0
    /\ acked = NoAnswer
    /\ pc = Idle
    /\ last = Ret("", "", 0, "")

NextReg ==
    \/ CvInitSystem
    \/ \E n \in Names : CvNamedWindow(n)
    \/ \E n \in Names : CvDestroyWindow(n)
    \/ CvDestroyAllWindows
    \/ \E n \in Names : CvGetWindowHandle(n)
    \/ \E h \in 0..NumAddrs : CvGetWindowName(h)

SpecReg == Init /\ [][NextReg]_vars

\* one window and the frames shown in it
NextWin ==
    \/ CvInitSystem
    \/ CvNamedWindow("a")
    \/ CvDestroyWindow("a")
    \/ \E d \in Dims : CvShowImage("a", d)
    \/ show_image
    \/ \E a \in Addrs, i \in {0, 1} : CompositorRelease(a, i)
    \/ handle_buffer_release

SpecWin == Init /\ [][NextWin]_vars

\* the same under a compositor that lets go of every buffer it holds and
\* whose release events reach the client: the roundtrip of next_buffer
\* returns, and dispatches what was sent before it
FairWin ==
    /\ WF_vars(show_image)
    /\ WF_vars(handle_buffer_release)
    /\ WF_vars(\E a \in Addrs, i \in {0, 1} : CompositorRelease(a, i))
SpecWinFair == Init /\ [][NextWin]_vars /\ FairWin

\* the keyboard and the key-wait loop of an application that makes one
\* window, once, for the keyboard focus
NextInput ==
    \/ CvInitSystem
    \/ (get_window("a") = 0 /\ CvNamedWindow("a"))
    \/ \E f \in {WL_KEYBOARD_KEYMAP_FORMAT_NO_KEYMAP,
                 WL_KEYBOARD_KEYMAP_FORMAT_XKB_V1} : CompositorKeymap(f)
    \/ \E k \in RawKeys, st \in {WL_KEYBOARD_KEY_STATE_RELEASED,
                                 WL_KEYBOARD_KEY_STATE_PRESSED} : CompositorKey(k, st)
    \/ handle_kb_keymap
    \/ handle_kb_key
    \/ SocketFills
    \/ SocketDrains
    \/ ConnectionBreaks
    \/ \E d \in Delays : CvWaitKey(d)
    \/ run_once
    \/ epoll_wait
    \/ epoll_timeout
    \/ cvWaitKey

SpecInput == Init /\ [][NextInput]_vars

\* the allocator hands out the lowest address that is free
LowestAddress == \A x \in DOMAIN heap' : \A y \in Addrs : y < x => y \in DOMAIN heap'

\* the frames and the geometry requests of an application with one window
NextGeometry ==
    \/ CvInitSystem
    \/ (get_window("a") = 0 /\ CvNamedWindow("a") /\ LowestAddress)
    \/ \E d \in Dims : CvShowImage("a", d)
    \/ show_image
    \/ \E a \in Addrs, i \in {0, 1} : CompositorRelease(a, i)
    \/ handle_buffer_release
    \/ \E n \in Names, d \in Dims : CvResizeWindow(n, d[1], d[2])
    \/ \E n \in Names, d \in Dims : CvMoveWindow(n, d[1], d[2])
    \/ \E a \in Addrs, d \in Dims : CompositorConfigure(a, d[1], d[2], 1)
    \/ handle_surface_configure

SpecGeometry == Init /\ [][NextGeometry]_vars

\* the key-wait loop of an application with one window, whatever the seat
\* offers, while the compositor configures the window's surface
NextSeat ==
    \/ CvInitSystem
    \/ (get_window("a") = 0 /\ CvNamedWindow("a"))
    \/ \E a \in Addrs, d \in Dims : CompositorConfigure(a, d[1], d[2], 1)
    \/ handle_surface_configure
    \/ \E d \in Delays : CvWaitKey(d)
    \/ run_once
    \/ epoll_wait
    \/ epoll_timeout
    \/ cvWaitKey

SpecSeat == Init /\ [][NextSeat]_vars

\* the pointer over two windows, made once each, and the loop that
\* dispatches its events
NextFocus ==
    \/ CvInitSystem
    \/ \E n \in Names : (get_window(n) = 0 /\ CvNamedWindow(n) /\ LowestAddress)
    \/ \E n \in Names : CvSetMouseCallback(n, TRUE)
    \/ \E a \in Addrs, p \in Points : CompositorEnter(a, p)
    \/ \E a \in Addrs : CompositorLeave(a)
    \/ \E p \in Points : CompositorMotion(p)
    \/ \E st \in {WL_POINTER_BUTTON_STATE_RELEASED,
                   WL_POINTER_BUTTON_STATE_PRESSED} : CompositorButton(LBUTTON, st)
    \/ handle_pointer_enter
    \/ handle_pointer_leave
    \/ handle_pointer_motion
    \/ handle_pointer_button
    \/ CvWaitKey(0)
    \/ run_once
    \/ epoll_wait
    \/ cvWaitKey

SpecFocus == Init /\ [][NextFocus]_vars

\* the buttons of the pointer over one window
NextButtons ==
    \/ CvInitSystem
    \/ (get_window("a") = 0 /\ CvNamedWindow("a"))
    \/ \E on_mouse \in BOOLEAN : CvSetMouseCallback("a", on_mouse)
    \/ \E a \in Addrs, p \in Points : CompositorEnter(a, p)
    \/ \E a \in Addrs : CompositorLeave(a)
    \/ \E p \in Points : CompositorMotion(p)
    \/ \E b \in Buttons, st \in {WL_POINTER_BUTTON_STATE_RELEASED,
                                   WL_POINTER_BUTTON_STATE_PRESSED} :
           CompositorButton(b, st)
    \/ handle_pointer_enter
    \/ handle_pointer_leave
    \/ handle_pointer_motion
    \/ handle_pointer_button
    \/ CvWaitKey(0)
    \/ run_once
    \/ epoll_wait
    \/ cvWaitKey

SpecButtons == Init /\ [][NextButtons]_vars

\* the pointer over a window that the application makes, makes again and
\* destroys; the events are dispatched by the roundtrips of show_image
NextStale ==
    \/ CvInitSystem
    \/ (CvNamedWindow("a") /\ LowestAddress)
    \/ CvDestroyWindow("a")
    \/ CvDestroyAllWindows
    \/ \E a \in Addrs, p \in Points : CompositorEnter(a, p)
    \/ \E a \in Addrs : CompositorLeave(a)
    \/ \E p \in Points : CompositorMotion(p)
    \/ handle_pointer_enter
    \/ handle_pointer_leave
    \/ handle_pointer_motion
    \/ CvShowImage("a", <<1, 1>>)
    \/ show_image
    \/ \E a \in Addrs, i \in {0, 1} : CompositorRelease(a, i)
    \/ handle_buffer_release

SpecStale == Init /\ [][NextStale]_vars

\* the keyboard of an application that shows frames in its window and
\* waits for keys: the events are dispatched by the roundtrips of show_image
\* and by run_once
NextKeys ==
    \/ CvInitSystem
    \/ (get_window("a") = 0 /\ CvNamedWindow("a") /\ LowestAddress)
    \/ CompositorKeymap(WL_KEYBOARD_KEYMAP_FORMAT_XKB_V1)
    \/ \E k \in RawKeys : CompositorKey(k, WL_KEYBOARD_KEY_STATE_RELEASED)
    \/ handle_kb_keymap
    \/ handle_kb_key
    \/ CvShowImage("a", <<1, 1>>)
    \/ show_image
    \/ \E a \in Addrs, i \in {0, 1} : CompositorRelease(a, i)
    \/ handle_buffer_release
    \/ CvWaitKey(0)
    \/ run_once
    \/ epoll_wait
    \/ cvWaitKey

SpecKeys == Init /\ [][NextKeys]_vars

\* the events of the shell, for an application with one window that sits
\* in cvWaitKey
NextShell ==
    \/ CvInitSystem
    \/ (get_window("a") = 0 /\ CvNamedWindow("a") /\ LowestAddress)
    \/ \E a \in Addrs, d \in Dims, serial \in 1..MaxSerial :
           CompositorConfigure(a, d[1], d[2], serial)
    \/ \E serial \in 1..MaxSerial : CompositorPing(serial)
    \/ handle_surface_configure
    \/ handle_shell_ping
    \/ CvWaitKey(0)
    \/ run_once
    \/ epoll_wait
    \/ cvWaitKey

SpecShell == Init /\ [][NextShell]_vars

\* the conversion of one frame
NextPixels == ConvertFrame

SpecPixels == Init /\ [][NextPixels]_vars

Next ==
    NextReg \/ NextWin \/ NextInput \/ NextGeometry \/ NextSeat \/ NextFocus \/ NextButtons
        \/ NextStale \/ NextKeys \/ NextShell \/ NextPixels
Spec == Init /\ [][Next]_vars

\* ------------------------------------------------------------- claims
BusyCount(win) == Cardinality({i \in {0, 1} : win.buffers_[i].busy})
ShowImageReturns == pc.op = "show_image" /\ pc'.op = "idle"

\* C1: whenever show_image gets a buffer from next_buffer (and writes the
\* frame into it or recreates its backing), that buffer was not marked busy
\* and the compositor was not holding it: a submitted, unreleased buffer is
\* never the render target, and a busy buffer is never returned.
C1_ChosenBufferNotBusy ==
    [][ShowImageReturns =>
        /\ ~heap[pc.w].buffers_[last'.ret].busy
        /\ <<pc.w, last'.ret>> \notin held]_vars

\* the second buffer was taken because the first was still busy
C1_Witness ==
    /\ pc = Idle /\ last.op = "cvShowImage" /\ last.exc = "" /\ last.ret = 1
    /\ get_window("a") # 0
    /\ heap[get_window("a")].buffers_[0].busy

\* C2 as stated: at most one of a window's two buffers is busy at a time
C2_AtMostOneBusy == \A a \in DOMAIN heap : BusyCount(heap[a]) <= 1

\* C2 as amended: at most one buffer is busy when show_image selects its
\* buffer; the call marks the selected buffer busy, one more than before, so
\* both buffers can be busy until a release is dispatched, and a release
\* clears no more than one buffer.
C2_OneMoreBusyPerFrame ==
    [][/\ (ShowImageReturns /\ last'.exc = "") =>
             BusyCount(heap'[pc.w]) = BusyCount(heap[pc.w]) + 1
       /\ handle_buffer_release =>
             \A a \in DOMAIN heap : BusyCount(heap'[a]) >= BusyCount(heap[a]) - 1
      ]_vars

\* both buffers are busy and held by the compositor
C2_Witness ==
    \E a \in DOMAIN heap :
        /\ BusyCount(heap[a]) = 2
        /\ {<<a, 0>>, <<a, 1>>} \subseteq held

\* C3: an entry of the name map, once made, is never replaced: get_window
\* keeps returning the window of the first create_window of that name, a
\* create_window of a name in use returns false and changes no entry, a
\* create_window of a new name returns true, and every window is found
\* under its own name.
C3_FirstCreateWins ==
    [][\A n \in Names :
        /\ (get_window(n) # 0 /\ get_window(n)' # 0) =>
               /\ get_window(n)' = get_window(n)
               /\ heap'[get_window(n)'] = heap[get_window(n)]
        /\ (\E a \in Addrs : create_window(n, a)) =>
               /\ last'.ret = (IF get_window(n) # 0 THEN 0 ELSE 1)
               /\ get_window(n)' # 0
               /\ heap'[get_window(n)'].name = n
      ]_vars

\* a second create_window of a name in use has failed, the window is there
C3_Witness ==
    /\ last.op = "create_window" /\ last.ret = 0
    /\ get_window(last.name) # 0
    /\ heap[get_window(last.name)].name = last.name

\* C4: destroy_window(n) leaves n unknown to get_window and every other
\* entry as it was; on a name not in the registry it changes neither map;
\* a name stays unknown until a create_window of it; a lookup of an unknown
\* name fails with out_of_range and changes nothing.
C4_DestroyThenLookupFails ==
    [][\A n \in Names :
        /\ destroy_window(n) =>
               /\ get_window(n)' = 0
               /\ last'.exc = ""
               /\ \A m \in Names \ {n} :
                      /\ get_window(m)' = get_window(m)
                      /\ get_window(m) # 0 =>
                             heap'[get_window(m)] = heap[get_window(m)]
               /\ get_window(n) = 0 =>
                      (windows_' = windows_ /\ handles_' = handles_ /\ heap' = heap)
        /\ (get_window(n) = 0 /\ get_window(n)' # 0) =>
               \E a \in Addrs : create_window(n, a)
        /\ (CvGetWindowHandle(n) /\ get_window(n) = 0 /\ g_core # "null") =>
               /\ last'.exc = "out_of_range"
               /\ UNCHANGED <<windows_, handles_, heap>>
      ]_vars

\* one window was destroyed, the other is still retrievable
C4_Witness ==
    /\ last.op = "destroy_window" /\ last.ret = 1
    /\ get_window(last.name) = 0
    /\ \E m \in Names : get_window(m) # 0

\* C5 as stated: a handle is in the handle map exactly when the window it
\* denotes is in the name map, under that window's name
C5_HandlesMatchWindows ==
    \A h \in 0..NumAddrs :
        h \in DOMAIN handles_ <=>
            \E n \in DOMAIN windows_ : windows_[n] = h /\ handles_[h] = n

\* C10 as stated: a failed initialisation returns -1 and leaves g_core
\* null, so a core never exists without its display connection
C10_NoPartialBackend ==
    /\ g_core # "null" => display_ = "ready"
    /\ (last.op = "cvInitSystem" /\ display_ = "null") => last.ret = -1

\* C6: get_key, as cvWaitKey calls it, returns the code enqueued last, or -1
\* when the queue is empty, and leaves the queue empty: a second call with
\* no key event in between returns -1, and after releases A then B the first
\* call returns B.
C6_GetKeyLatestAndDrains ==
    [][(cvWaitKey /\ keyboard_) =>
        /\ key_queue_' = <<>>
        /\ last'.ret = (IF key_queue_ = <<>> THEN -1
                        ELSE key_queue_[Len(key_queue_)])
        /\ (key_queue_ = <<>>) => (last'.op = "get_key" /\ pc'.op = "cvWaitKey")
      ]_vars

\* Enter then a were released before one poll; the poll returned a and left
\* the queue empty
C6_Witness ==
    /\ last.op = "cvWaitKey" /\ last.arg = 2 /\ last.ret = 97
    /\ key_queue_ = <<>>

\* C7 as stated: a press leaves the queue as it is and a release appends
\* one code, the low 8 bits of the symbol of (raw code + 8); the queue
\* holds codes in 0..255 only
C7_ReleaseEnqueuesOneCode ==
    [][handle_kb_key =>
        /\ key_queue_' =
             IF Head(wire).b = WL_KEYBOARD_KEY_STATE_PRESSED THEN key_queue_
             ELSE Append(key_queue_, xkb_keysym_to_ascii(
                      xkb_state_key_get_one_sym(
                          xkb_keycode_from_raw_keycode(Head(wire).a))))
        /\ \A i \in 1..Len(key_queue_') : key_queue_'[i] \in 0..255
      ]_vars

\* C8 as stated: with a positive timeout, cvWaitKey returns -1 once a
\* run_once step has timed out
C8_TimeoutReturnsNone ==
    [][(epoll_timeout /\ pc.delay > 0) =>
        (pc'.op = "idle" /\ last'.op = "cvWaitKey" /\ last'.ret = -1)]_vars

\* a return of run_once: after a failed flush, from the wait without
\* EPOLLIN, on a timeout, or after dispatch()
RunOnceReturns ==
    \/ run_once /\ pc'.at = "run_once"
    \/ epoll_wait /\ pc'.at = "run_once"
    \/ epoll_timeout
    \/ cvWaitKey
\* the events that return carries
EventsReturned == IF pc.at = "dispatch" THEN pc.ev ELSE last'.events
\* a timed-out wait returns 0 and has dispatched nothing
TimeoutIsQuiet ==
    (pc.op = "cvWaitKey" /\ pc.at = "wait" /\ Fired = {} /\ pc' # pc) =>
        /\ Timeout(pc.delay) >= 0
        /\ last'.op = "run_once" /\ last'.ret = 0 /\ last'.events = {}
        /\ UNCHANGED <<wire, kbVars, heap, held, interest>>

Constructs == g_core = "null" /\ last'.op = "cvInitSystem"
\* the compositor offered the three required globals and the XRGB8888 format
HasRequired(env) ==
    /\ {"wl_compositor", "wl_shm", "xdg_shell"} \subseteq env.globals
    /\ WL_SHM_FORMAT_XRGB8888 \in env.formats

\* C11: the display connection is ready, with its descriptor registered
\* with the epoller, only if the compositor, the shm and the shell globals
\* were bound and XRGB8888 was among the formats announced; when any of
\* them is missing the construction fails, nothing is registered, and no
\* later call makes the connection ready.
C11_ReadyOnlyWithRequired ==
    [][/\ Constructs =>
            /\ display_' = "ready" =>
                   (HasRequired(last'.env) /\ interest' = AllEvents)
            /\ ~HasRequired(last'.env) =>
                   (display_' = "null" /\ interest' = {})
       /\ (g_core # "null" /\ display_ = "null") => display_' = "null"
      ]_vars

\* every global was bound but only ARGB8888 was announced: not ready
C11_Witness ==
    /\ last.op = "cvInitSystem" /\ last.env.connect
    /\ last.env.globals = Globals
    /\ last.env.formats = {WL_SHM_FORMAT_ARGB8888}
    /\ display_ = "null" /\ interest = {}

\* C12 as stated: after the capabilities are announced a mouse exists
\* exactly when the pointer bit (1) is set, and a keyboard exactly when the
\* keyboard bit (2) is set
C12_DevicesFollowCapabilities ==
    [][(Constructs /\ display_' = "ready") =>
        /\ mouse_' = BitSet(last'.env.caps, 1)
        /\ keyboard_' = BitSet(last'.env.caps, 2)]_vars

\* C13 as stated: while the keyboard has no translation state a key event
\* enqueues nothing and ends in no crash
C13_KeysInertWithoutLayout ==
    [][(handle_kb_key /\ xkb_state # "valid") =>
        (key_queue_' = key_queue_ /\ pc'.op # "crashed")]_vars

\* C14 as stated: when the seat made no keyboard, the key-wait loop goes on
\* after a readable event: no failure reaches the caller of cvWaitKey, and
\* the windows and the display stay as they are
C14_KeyWaitToleratesNoKeyboard ==
    [][(cvWaitKey /\ ~keyboard_) =>
        /\ last'.exc = "" /\ pc'.op # "crashed"
        /\ UNCHANGED <<display_, windows_, heap>>]_vars

\* C15 as stated: a motion or button event goes to the window entered last
\* and not left (no enter or leave is in flight, so the compositor's view
\* is the view of the events handled so far)
C15_EventsGoToFocusedWindow ==
    [][((handle_pointer_motion \/ handle_pointer_button)
            /\ pointer_on # <<>>
            /\ InFlight("enter") = 0 /\ InFlight("leave") = 0) =>
        LET w == pointer_on[Len(pointer_on)] IN
        /\ pc'.op # "crashed"
        /\ IF Head(wire).kind = "motion"
           THEN /\ heap'[w].on_mouse_.last_x = wl_fixed_to_int(Head(wire).a)
                /\ heap'[w].on_mouse_.last_y = wl_fixed_to_int(Head(wire).b)
           ELSE /\ heap'[w].on_mouse_.button = Head(wire).a
                /\ heap'[w].on_mouse_.drag =
                       (Head(wire).b = WL_POINTER_BUTTON_STATE_PRESSED)
      ]_vars

\* the window an event of the pointer is forwarded to has a callback
Reported ==
    /\ queue_front(entered_window_) \in DOMAIN heap
    /\ heap[queue_front(entered_window_)].on_mouse_.callback
\* the flags of the left, right and middle buttons that are down
HeldFlags ==
    {EVENT_FLAG_LBUTTON : b \in pressed \cap {LBUTTON}}
        \cup {EVENT_FLAG_RBUTTON : b \in pressed \cap {RBUTTON}}
        \cup {EVENT_FLAG_MBUTTON : b \in pressed \cap {MBUTTON}}
\* the flag of the button of the last button event, if it was a press
LastPressFlag ==
    IF last_click.state # WL_POINTER_BUTTON_STATE_PRESSED THEN 0
    ELSE IF last_click.button = LBUTTON THEN EVENT_FLAG_LBUTTON
    ELSE IF last_click.button = RBUTTON THEN EVENT_FLAG_RBUTTON
    ELSE IF last_click.button = MBUTTON THEN EVENT_FLAG_MBUTTON
    ELSE 0

\* C16 as stated: a motion callback carries the flag of a held button
\* exactly while a button is held, and 0 while none is (no button event is
\* in flight, so the buttons down are those of the events handled so far)
C16_MotionFlagWhileHeld ==
    [][(handle_pointer_motion /\ Reported /\ InFlight("button") = 0) =>
        /\ called'.event = EVENT_MOUSEMOVE
        /\ IF HeldFlags = {} THEN called'.flag = 0
           ELSE called'.flag \in HeldFlags]_vars

\* C16 as amended: a motion callback carries the flag of the button of the
\* most recent button event if that event was a press of the left, right
\* or middle button, and 0 otherwise: press-then-motion reports the pressed
\* button, motion after its release reports 0, and a second button pressed
\* or released while the first is held takes the flag over.
C16_MotionFlagFollowsLastButtonEvent ==
    [][(handle_pointer_motion /\ Reported /\ InFlight("button") = 0) =>
        /\ called'.event = EVENT_MOUSEMOVE
        /\ called'.flag = LastPressFlag
        /\ called'.x = wl_fixed_to_int(Head(wire).a)
        /\ called'.y = wl_fixed_to_int(Head(wire).b)]_vars

\* the left button is down and the last motion reported its flag
C16_Witness ==
    /\ pressed = {LBUTTON} /\ wire = <<>>
    /\ called.event = EVENT_MOUSEMOVE /\ called.flag = EVENT_FLAG_LBUTTON

\* button, state, event kind and flag of the six button events
SixKinds ==
    {<<LBUTTON, WL_POINTER_BUTTON_STATE_PRESSED, EVENT_LBUTTONDOWN, EVENT_FLAG_LBUTTON>>,
     <<LBUTTON, WL_POINTER_BUTTON_STATE_RELEASED, EVENT_LBUTTONUP, EVENT_FLAG_LBUTTON>>,
     <<RBUTTON, WL_POINTER_BUTTON_STATE_PRESSED, EVENT_RBUTTONDOWN, EVENT_FLAG_RBUTTON>>,
     <<RBUTTON, WL_POINTER_BUTTON_STATE_RELEASED, EVENT_RBUTTONUP, EVENT_FLAG_RBUTTON>>,
     <<MBUTTON, WL_POINTER_BUTTON_STATE_PRESSED, EVENT_MBUTTONDOWN, EVENT_FLAG_MBUTTON>>,
     <<MBUTTON, WL_POINTER_BUTTON_STATE_RELEASED, EVENT_MBUTTONUP, EVENT_FLAG_MBUTTON>>}

\* C17 as stated: the callback of a button event, whatever the button,
\* carries one of the six button event kinds, matching the button and the
\* direction, with that button's flag and the position recorded last; its
\* kind is never the move kind
C17_ButtonCallbackKinds ==
    [][(handle_pointer_button /\ Reported) =>
        /\ <<Head(wire).a, Head(wire).b, called'.event, called'.flag>> \in SixKinds
        /\ called'.event # EVENT_MOUSEMOVE
        /\ called'.x = heap[queue_front(entered_window_)].on_mouse_.last_x
        /\ called'.y = heap[queue_front(entered_window_)].on_mouse_.last_y]_vars

\* C18: the device pixel at index y * cols + x is c2 * 2^16 + c1 * 2^8 + c0
\* for the channel bytes (c0, c1, c2) the image holds at (x, y): alpha 0,
\* every channel kept; the pixels written are those of the image, no more.
C18_PixelsPacked ==
    mat # NoMat =>
        /\ DOMAIN shm_data = 0..(mat.cols * mat.rows - 1)
        /\ \A y \in 0..(mat.rows - 1), x \in 0..(mat.cols - 1) :
             LET at == mat.step * y + 3 * x IN
             shm_data[y * mat.cols + x] =
                 mat.data[at + 2] * 65536 + mat.data[at + 1] * 256 + mat.data[at]

\* the 1x1 image (10, 20, 30) became 0x001E140A
C18_Witness ==
    /\ mat.cols = 1 /\ mat.rows = 1
    /\ mat.data[0] = 10 /\ mat.data[1] = 20 /\ mat.data[2] = 30
    /\ shm_data[0] = 1971210

\* C19: cvResizeWindow, cvMoveWindow (of a window or of an unknown name) and
\* a surface configure event leave every window, its width and height
\* included, and both maps as they were, and raise nothing; the width or
\* height of a window changes only in the step that enters show_image.
C19_SizeChangesOnlyByShowImage ==
    [][/\ (\E n \in Names, d \in Dims :
               CvResizeWindow(n, d[1], d[2]) \/ CvMoveWindow(n, d[1], d[2])) =>
            /\ UNCHANGED <<windows_, handles_, heap>>
            /\ last'.exc = "" /\ pc' = Idle
       /\ handle_surface_configure =>
            UNCHANGED <<windows_, handles_, heap, pc, last>>
       /\ \A a \in DOMAIN heap \cap DOMAIN heap' :
            (heap'[a].width # heap[a].width \/ heap'[a].height # heap[a].height)
                => (pc = Idle /\ pc'.op = "show_image" /\ pc'.w = a)
      ]_vars

\* a resize to another width was asked of a window, which kept its size
C19_Witness ==
    /\ last.op = "cvResizeWindow" /\ get_window(last.name) # 0
    /\ heap[get_window(last.name)].width # last.arg
    /\ heap[get_window(last.name)].width = default_width

\* C20 as stated: a compositor that offers the compositor, shm and shell
\* globals and XRGB8888, with or without a seat, gets the display ready;
\* without a seat no mouse and no keyboard exist
C20_SeatIsOptional ==
    [][(Constructs /\ last'.env.epoll_create /\ last'.env.connect
            /\ last'.env.epoll_ctl /\ HasRequired(last'.env)) =>
        /\ display_' = "ready"
        /\ "wl_seat" \notin last'.env.globals => (~mouse_' /\ ~keyboard_')]_vars

\* C21: next_buffer returns if and only if, after one of its roundtrips, a
\* buffer is not busy: when the compositor releases the buffers it holds and
\* the releases are delivered, every call of show_image comes to its end;
\* and as long as both buffers are busy the call does not return (the loop
\* has no timeout and no other way out)
C21_ShowImageReturnsIffBufferFree ==
    /\ (pc.op = "show_image") ~> (pc.op = "idle")
    /\ [][(pc.op = "show_image" /\ BusyCount(heap[pc.w]) = 2) =>
            pc'.op = "show_image"]_vars

\* next_buffer's roundtrip has returned and both buffers are still busy
C21_Witness ==
    /\ pc.op = "show_image"
    /\ wire # <<>> /\ Head(wire) = Mark
    /\ BusyCount(heap[pc.w]) = 2

\* C22: when show_image returns (no exception left it), the window has the
\* size of the image, and the buffer that was written and submitted has a
\* backing of that size and is busy; a buffer whose backing had that size
\* already is the same backing as before, with no new mapping made, and one
\* with no backing or a backing of another size got a new mapping
C22_ShownFrameSizesWindowAndBuffer ==
    [][(ShowImageReturns /\ last'.exc = "") =>
        LET a == pc.w
            i == last'.ret
            old == heap[a].buffers_[i]
            new == heap'[a].buffers_[i]
        IN /\ heap'[a].width = pc.dim[1] /\ heap'[a].height = pc.dim[2]
           /\ new.buffer /\ new.busy
           /\ new.width = pc.dim[1] /\ new.height = pc.dim[2]
           /\ IF old.buffer /\ old.width = pc.dim[1] /\ old.height = pc.dim[2]
              THEN new = [old EXCEPT !.busy = TRUE] /\ mmaps' = mmaps
              ELSE mmaps < MaxMaps => mmaps' = mmaps + 1
      ]_vars

\* the first buffer was made for a frame and made again for a frame of
\* another size, which it now holds
C22_Witness ==
    /\ pc = Idle /\ last.op = "cvShowImage" /\ last.exc = "" /\ last.ret = 0
    /\ mmaps = 2
    /\ \E a \in DOMAIN heap :
         /\ heap[a].width = 2 /\ heap[a].height = 1
         /\ heap[a].buffers_[0].busy /\ heap[a].buffers_[0].width = 2
         /\ ~heap[a].buffers_[1].buffer /\ heap[a].buffers_[1].width = 0

\* a step of run_once's first flush: the client is at the top of run_once
\* and the step is none of the compositor's or of the socket's
FirstFlush ==
    /\ pc.op = "cvWaitKey" /\ pc.at = "run_once"
    /\ wire' = wire /\ sock' = sock
    /\ <<pc, last, fatal, interest>>' # <<pc, last, fatal, interest>>

\* C23: when the first flush of run_once fails for a reason other than
\* EAGAIN (the display is in error after the step, or the connection was
\* broken), run_once returns 0 at once, with no exception and without
\* entering the wait; otherwise, and so when the flush would block, it goes
\* on to the wait
C23_FlushErrorReturnsZeroWithoutWait ==
    [][FirstFlush =>
        IF fatal' \/ sock = "broken"
        THEN /\ pc'.at # "wait" /\ pc'.op = "cvWaitKey"
             /\ last'.op = "run_once" /\ last'.name = "flush_failed"
             /\ last'.ret = 0 /\ last'.exc = ""
        ELSE pc'.at = "wait"
      ]_vars

\* a flush failed on a connection that was not broken, and run_once
\* returned 0 to cvWaitKey, which is about to call it again
C23_Witness ==
    /\ pc.op = "cvWaitKey" /\ pc.at = "run_once"
    /\ last.op = "run_once" /\ last.name = "flush_failed" /\ last.ret = 0
    /\ fatal /\ sock = "full"

\* the events run_once is handling when it comes to its second flush
Handled == IF pc.at = "wait" THEN Fired ELSE pc.ev

C25_EnteredWindowsExist ==
    /\ \A i \in 1..Len(entered_window_) :
         entered_window_[i] \in Range(windows_)
    /\ (Dispatching /\ wire # <<>> /\ Head(wire).kind \in {"motion", "button"})
         => entered_window_ # <<>>

\* C26 as stated: a key code that is in key_queue_ when cvWaitKey is called
\* (dispatch() in run_once is followed by get_key, which empties the queue,
\* so the code was queued by a roundtrip of show_image) is returned without
\* a further readable event: cvWaitKey is never blocked in a wait with no
\* timeout, nothing to read on the connection, while a key code is queued
C26_QueuedKeyReturnedWithoutNewEvent ==
    ~(/\ pc.op = "cvWaitKey" /\ pc.at = "wait"
      /\ key_queue_ # <<>>
      /\ ~wait_times_out(Timeout(pc.delay))
      /\ Fired = {})

\* the buffers that have a backing
Backings ==
    {<<a, i>> \in (DOMAIN heap) \X {0, 1} : heap[a].buffers_[i].buffer}

\* C27 as stated: a backing is released as a unit, its mapping with it, so
\* the mappings that are still mapped are never more than the buffers that
\* have a backing
C27_MappingsReleasedWithBacking == mmaps <= Cardinality(Backings)

\* a handler takes the event at the head of the wire
Handles(kind) ==
    /\ Dispatching
    /\ wire # <<>> /\ Head(wire).kind = kind
    /\ wire' = Tail(wire)

\* C28: the step that handles a configure event of a window's surface queues
\* xdg_surface_ack_configure on that surface with the serial of the event,
\* and the step that handles a ping queues xdg_shell_pong with the serial of
\* the ping: each is answered by its own handler, before the next event is
\* handled, and none is handled without an answer
C28_ConfigureAndPingAnswered ==
    [][/\ Handles("configure") =>
            acked' = Answer("ack_configure", Head(wire).a, Head(wire).serial)
       /\ Handles("ping") =>
            acked' = Answer("pong", 0, Head(wire).serial)
      ]_vars

\* a ping was answered with its serial, after an answer with another
\* serial, and the next event of the same dispatch is a configure
C28_Witness ==
    /\ Dispatching
    /\ acked = Answer("pong", 0, 2)
    /\ wire # <<>> /\ Head(wire).kind = "configure" /\ Head(wire).serial = 1
====
